---- MODULE Spec2Model ----
(***************************************************************************)
(* A model of roommodes.py: validation of the configuration, the speed of  *)
(* sound, the axial mode frequencies of each room dimension and the        *)
(* proximity of the speaker to the pressure nodes of each mode.            *)
(*                                                                         *)
(* Numbers.  Lengths are integers in decimetres, speeds in dm/s, the       *)
(* relative humidity in tenths, the temperature in degrees Celsius.  A     *)
(* frequency, a wavelength, a node position or a distance is an exact      *)
(* rational <<num, den>> with den > 0, kept in lowest terms and compared   *)
(* by cross multiplication.  Python computes in binary floating point; the    *)
(* one place where rounding changes the control flow is int(a/b) for a     *)
(* quotient that is an integer q in exact arithmetic: the float quotient   *)
(* lands on q or just below it, so int() gives q or q-1.  IntOfQuotient    *)
(* returns the set of both outcomes.                                       *)
(*                                                                         *)
(* run_simulation.  Lines 130-133 of the source are an unfinished first    *)
(* draft of the x loop; the statement they open is never closed.  The      *)
(* model is of the three complete loops, lines 134-150, with their free    *)
(* names bound to the values lines 121-126 and the configuration give      *)
(* them: modes_x, modes_y, modes_z are the three mode lists, cs is t.cs,   *)
(* length is t.dimensions.length and x_pos, y_pos, z_pos are xpos, ypos,   *)
(* zpos.                                                                   *)
(***************************************************************************)
EXTENDS Integers, Sequences, FiniteSets, TLC

VARIABLES myargs, cs, config_error, modes, proximity, node_positions,
          idx, answer, called, pc, ax, values

vars == <<myargs, cs, config_error, modes, proximity, node_positions,
          idx, answer, called, pc, ax, values>>

(***************************************************************************)
(* Bounds of the model.                                                    *)
(***************************************************************************)
\* speaker coordinates range over -10, 0, 10, .. , 10*MaxCoord decimetres
MaxCoord == 2
\* room dimensions range over 0, 10, .. , 10*MaxDim decimetres
MaxDim == 3
\* the harmonic count n ranges over 0 .. MaxN
MaxN == 3
\* inputs of the stand-alone axial_mode_freqs runs
AxMaxDim == 3
AxMaxN == 4
AxMaxCs == 6
AxMaxCutoff == 4

Coords == {10 * k : k \in (0 - 1)..MaxCoord}
Dims == {10 * k : k \in 0..MaxDim}
Humidities == {0, 6, 10, 12}
Temperatures == {0, 23}
Cutoffs == {100, 250}

Axes == {"x", "y", "z"}
EmptyByAxis == [a \in Axes |-> <<>>]
NoModes == [length |-> <<>>, width |-> <<>>, height |-> <<>>]

(***************************************************************************)
(* Exact rationals.                                                        *)
(***************************************************************************)
Abs(i) == IF i < 0 THEN 0 - i ELSE i

RECURSIVE Gcd(_, _)
Gcd(a, b) == IF b = 0 THEN a ELSE Gcd(b, a % b)

Rat(num, den) ==
    LET g == Gcd(Abs(num), den) IN <<num \div g, den \div g>>

RatLt(a, b) == a[1] * b[2] < b[1] * a[2]

RatLe(a, b) == a[1] * b[2] <= b[1] * a[2]

RatEq(a, b) == a[1] * b[2] = b[1] * a[2]

\* int(q) of a non-negative quotient q: the floor, or one less when the
\* exact quotient is a positive integer and the float quotient falls short
IntOfQuotient(q) ==
    LET fl == q[1] \div q[2]
    IN  IF q[1] % q[2] = 0 /\ fl > 0 THEN {fl - 1, fl} ELSE {fl}

(***************************************************************************)
(* axial_mode_freqs, lines 62-84.                                          *)
(***************************************************************************)
RECURSIVE AxialLoop(_, _, _, _, _, _)
AxialLoop(dimension, n, speed, cutoff, i, acc) ==
    IF i > n THEN acc
    ELSE LET v == Rat(speed * i, 2 * dimension)
         IN  IF RatLt(v, <<cutoff, 1>>)
             THEN AxialLoop(dimension, n, speed, cutoff, i + 1, Append(acc, v))
             ELSE acc

\* axial_mode_freqs with line 79 as "v <= cutoff"
RECURSIVE AxialLoopLe(_, _, _, _, _, _)
AxialLoopLe(dimension, n, speed, cutoff, i, acc) ==
    IF i > n THEN acc
    ELSE LET v == Rat(speed * i, 2 * dimension)
         IN  IF RatLe(v, <<cutoff, 1>>)
             THEN AxialLoopLe(dimension, n, speed, cutoff, i + 1,
                              Append(acc, v))
             ELSE acc

axial_mode_freqs_le(dimension, n, speed, cutoff) ==
    AxialLoopLe(dimension, n, speed, cutoff, 1, <<>>)

\* axial_mode_freqs with line 77 as "range(1, n)"
axial_mode_freqs_short(dimension, n, speed, cutoff) ==
    AxialLoop(dimension, n - 1, speed, cutoff, 1, <<>>)

axial_mode_freqs(dimension, n, speed, cutoff) ==
    AxialLoop(dimension, n, speed, cutoff, 1, <<>>)

(***************************************************************************)
(* speed_of_sound, lines 163-164, in fixed point: the result is in dm/s,   *)
(* truncated; the square root is the integer square root of a value        *)
(* scaled by 10^8.                                                         *)
(***************************************************************************)
RECURSIVE ISqrtBetween(_, _, _)
ISqrtBetween(x, lo, hi) ==
    IF lo >= hi THEN lo
    ELSE LET mid == (lo + hi + 1) \div 2
         IN  IF mid * mid <= x THEN ISqrtBetween(x, mid, hi)
             ELSE ISqrtBetween(x, lo, mid - 1)

speed_of_sound(temperature, humidity) ==
    LET ratio == ((27315 + 100 * temperature) * 10000) \div 27315
        root  == ISqrtBetween(ratio * 10000, 0, 20000)
        dry   == (3313 * root) \div 10000
    IN  (dry * (100000 + 124 * humidity)) \div 100000

(***************************************************************************)
(* The state after the configuration is loaded, lines 231-244.             *)
(***************************************************************************)
Idle == [dimension |-> 1, n |-> 1, cs |-> 1, cutoff |-> 1]

Init ==
    /\ myargs \in [xpos : Coords, ypos : Coords, zpos : Coords,
                   dimensions : [length : Dims, width : Dims, height : Dims],
                   rh : Humidities, temp : Temperatures,
                   n : 0..MaxN, lowpass : Cutoffs]
    /\ cs = 0
    /\ config_error = FALSE
    /\ modes = NoModes
    /\ proximity = EmptyByAxis
    /\ node_positions = EmptyByAxis
    /\ idx = 0
    /\ answer = <<>>
    /\ called = {}
    /\ pc = "validate"
    /\ ax = Idle
    /\ values = <<>>

(***************************************************************************)
(* roommodes_main, lines 172-188: the three range checks and the exit.     *)
(***************************************************************************)
PositionCheckFails(t) == ~(t.xpos > 0 /\ t.ypos > 0 /\ t.zpos > 0)

DimensionCheckFails(t) ==
    ~(\A k \in DOMAIN t.dimensions : t.dimensions[k] > 0)

\* the humidity check of line 182 without its upper bound
HumidityCheckNoUpper(t) == ~(0 < t.rh)

HumidityCheckFails(t) == ~(0 < t.rh /\ t.rh < 10)

Validate ==
    /\ pc = "validate"
    /\ config_error' = (\/ PositionCheckFails(myargs)
                        \/ DimensionCheckFails(myargs)
                        \/ HumidityCheckFails(myargs))
    /\ pc' = IF config_error' THEN "exit_config" ELSE "speed_of_sound"
    /\ UNCHANGED <<myargs, cs, modes, proximity, node_positions, idx,
                   answer, called, ax, values>>

(***************************************************************************)
(* roommodes_main, lines 190-191.                                          *)
(***************************************************************************)
SpeedOfSound ==
    /\ pc = "speed_of_sound"
    /\ cs' = speed_of_sound(myargs.temp, myargs.rh)
    /\ called' = called \cup {"speed_of_sound"}
    /\ pc' = "run_simulation"
    /\ UNCHANGED <<myargs, config_error, modes, proximity, node_positions,
                   idx, answer, ax, values>>

(***************************************************************************)
(* run_simulation, lines 121-128: the mode list of each dimension.         *)
(***************************************************************************)
RunSimulation ==
    /\ pc = "run_simulation"
    /\ called' = called \cup {"run_simulation"}
    /\ modes' = [k \in DOMAIN myargs.dimensions |->
                    axial_mode_freqs(myargs.dimensions[k], myargs.n, cs,
                                     myargs.lowpass)]
    /\ proximity' = EmptyByAxis
    /\ idx' = 1
    /\ pc' = "loop_x"
    /\ UNCHANGED <<myargs, cs, config_error, node_positions, answer, ax,
                   values>>

(***************************************************************************)
(* run_simulation, one iteration of a loop of lines 134-150.  bound is the *)
(* dimension the loop divides by, pos the speaker coordinate it measures   *)
(* from.  min() of an empty list raises ValueError, which leaves           *)
(* run_simulation and roommodes_main.                                      *)
(***************************************************************************)
Wavelength(f) == Rat(cs * f[2], f[1])

HalfOf(w) == Rat(w[1], 2 * w[2])

NodeCounts(bound, f) ==
    LET half == HalfOf(Wavelength(f))
    IN  IntOfQuotient(Rat(bound * half[2], half[1]))

NodePositions(f, cnt) ==
    LET half == HalfOf(Wavelength(f))
    IN  [k \in 1..cnt |-> Rat(k * half[1], half[2])]

Distance(pos, node) == Rat(Abs(pos * node[2] - node[1]), node[2])

Distances(pos, nodes) == [k \in 1..Len(nodes) |-> Distance(pos, nodes[k])]

MinOf(ds) ==
    ds[CHOOSE k \in 1..Len(ds) :
          /\ \A j \in 1..Len(ds) : RatLe(ds[k], ds[j])
          /\ \A j \in 1..(k - 1) : ~RatLe(ds[j], ds[k])]

LoopBody(axis, ms, bound, pos, after) ==
    IF idx > Len(ms)
    THEN /\ pc' = after
         /\ idx' = 1
         /\ UNCHANGED <<proximity, node_positions>>
    ELSE \E cnt \in NodeCounts(bound, ms[idx]) :
            LET nodes == NodePositions(ms[idx], cnt)
            IN  /\ node_positions' =
                       [node_positions EXCEPT ![axis] = Append(@, nodes)]
                /\ IF cnt = 0
                   THEN /\ pc' = "value_error"
                        /\ UNCHANGED <<proximity, idx>>
                   ELSE /\ proximity' =
                               [proximity EXCEPT ![axis] =
                                   Append(@, <<MinOf(Distances(pos, nodes)),
                                               ms[idx]>>)]
                        /\ idx' = idx + 1
                        /\ pc' = pc

\* lines 134-138
LoopX ==
    /\ pc = "loop_x"
    /\ LoopBody("x", modes.length, myargs.dimensions.length, myargs.xpos,
                "loop_y")
    /\ UNCHANGED <<myargs, cs, config_error, modes, answer, called, ax,
                   values>>

\* lines 140-144
LoopY ==
    /\ pc = "loop_y"
    /\ LoopBody("y", modes.width, myargs.dimensions.length, myargs.ypos,
                "loop_z")
    /\ UNCHANGED <<myargs, cs, config_error, modes, answer, called, ax,
                   values>>

\* lines 146-150
LoopZ ==
    /\ pc = "loop_z"
    /\ LoopBody("z", modes.height, myargs.dimensions.length, myargs.zpos,
                "return")
    /\ UNCHANGED <<myargs, cs, config_error, modes, answer, called, ax,
                   values>>

(***************************************************************************)
(* run_simulation, lines 152-156, and the assignment of line 192.          *)
(***************************************************************************)
Return ==
    /\ pc = "return"
    /\ answer' = <<[x |-> proximity.x, y |-> proximity.y, z |-> proximity.z]>>
    /\ pc' = "reported"
    /\ UNCHANGED <<myargs, cs, config_error, modes, proximity,
                   node_positions, idx, called, ax, values>>

(***************************************************************************)
(* roommodes_main, line 193: no function named reported exists (the one    *)
(* defined at line 159 is reporter), so the call raises NameError and      *)
(* line 195 is never reached.                                              *)
(***************************************************************************)
Reported ==
    /\ pc = "reported"
    /\ pc' = "name_error"
    /\ UNCHANGED <<myargs, cs, config_error, modes, proximity,
                   node_positions, idx, answer, called, ax, values>>

Next ==
    \/ Validate
    \/ SpeedOfSound
    \/ RunSimulation
    \/ LoopX
    \/ LoopY
    \/ LoopZ
    \/ Return
    \/ Reported

Spec == Init /\ [][Next]_vars

(***************************************************************************)
(* axial_mode_freqs on its own: the arguments are drawn from bounded sets  *)
(* of positive values and the function is applied once.                    *)
(***************************************************************************)
InitAxial ==
    /\ ax \in [dimension : 1..AxMaxDim, n : 1..AxMaxN, cs : 1..AxMaxCs,
               cutoff : 1..AxMaxCutoff]
    /\ values = <<>>
    /\ pc = "axial_call"
    /\ myargs = [xpos |-> 0, ypos |-> 0, zpos |-> 0,
                 dimensions |-> [length |-> 0, width |-> 0, height |-> 0],
                 rh |-> 0, temp |-> 0, n |-> 0, lowpass |-> 0]
    /\ cs = 0
    /\ config_error = FALSE
    /\ modes = NoModes
    /\ proximity = EmptyByAxis
    /\ node_positions = EmptyByAxis
    /\ idx = 0
    /\ answer = <<>>
    /\ called = {}

CallAxial ==
    /\ pc = "axial_call"
    /\ values' = axial_mode_freqs(ax.dimension, ax.n, ax.cs, ax.cutoff)
    /\ pc' = "axial_done"
    /\ UNCHANGED <<myargs, cs, config_error, modes, proximity,
                   node_positions, idx, answer, called, ax>>

NextAxial == CallAxial

SpecAxial == InitAxial /\ [][NextAxial]_vars

(***************************************************************************)
(* Vocabulary of the properties.                                           *)
(***************************************************************************)
DimOf(a) ==
    CASE a = "x" -> myargs.dimensions.length
      [] a = "y" -> myargs.dimensions.width
      [] a = "z" -> myargs.dimensions.height

CoordOf(a) ==
    CASE a = "x" -> myargs.xpos
      [] a = "y" -> myargs.ypos
      [] a = "z" -> myargs.zpos

ModesOf(a) ==
    CASE a = "x" -> modes.length
      [] a = "y" -> modes.width
      [] a = "z" -> modes.height

AllDimensions == {myargs.dimensions.length, myargs.dimensions.width,
                  myargs.dimensions.height}

AllCoordinates == {myargs.xpos, myargs.ypos, myargs.zpos}

HumidityInRange == 0 < myargs.rh /\ myargs.rh < 10

\* the simulation has ended, with a report or with an exception
SimulationEnded == pc \in {"reported", "name_error", "value_error"}

Harmonic(i) == Rat(ax.cs * i, 2 * ax.dimension)

\* the first index in 1..n whose harmonic meets or exceeds the cutoff
FirstAtOrAboveCutoff ==
    LET over == {i \in 1..ax.n : ~RatLt(Harmonic(i), <<ax.cutoff, 1>>)}
    IN  IF over = {} THEN ax.n + 1
        ELSE CHOOSE i \in over : \A j \in over : i <= j

\* the nodes strictly inside a room of size d: k * (wavelength / 2) < d
InteriorNodes(d, f) ==
    LET half == HalfOf(Wavelength(f))
        most == (d * half[2]) \div half[1]
        last == Cardinality({k \in 1..most :
                               RatLt(Rat(k * half[1], half[2]), <<d, 1>>)})
    IN  [k \in 1..last |-> Rat(k * half[1], half[2])]

NoNode == <<>>

(***************************************************************************)
(* C1: for positive dimension, speed and cutoff and n >= 1, the list       *)
(* axial_mode_freqs returns is strictly increasing, has at most n          *)
(* elements, and every element is below the cutoff.                        *)
(***************************************************************************)
C1_AxialIncreasingBounded ==
    pc = "axial_done" =>
        /\ Len(values) <= ax.n
        /\ \A j \in 1..Len(values) : RatLt(values[j], <<ax.cutoff, 1>>)
        /\ \A j \in 1..(Len(values) - 1) : RatLt(values[j], values[j + 1])

C1_Witness ==
    /\ pc = "axial_done"
    /\ Len(values) >= 2
    /\ Len(values) < ax.n

(***************************************************************************)
(* C2: axial_mode_freqs returns exactly the harmonics (cs/2)*i/d for       *)
(* i = 1..k-1, in order, where k is the first index in 1..n whose harmonic *)
(* is >= cutoff (n+1 if there is none); the result is empty when the       *)
(* first harmonic is >= cutoff.                                            *)
(***************************************************************************)
C2_AxialTruncatesAtFirst ==
    pc = "axial_done" =>
        /\ Len(values) = FirstAtOrAboveCutoff - 1
        /\ \A i \in 1..Len(values) : values[i] = Harmonic(i)

C2_Witness ==
    /\ pc = "axial_done"
    /\ FirstAtOrAboveCutoff \in 2..(ax.n - 1)
    /\ RatEq(Harmonic(FirstAtOrAboveCutoff), <<ax.cutoff, 1>>)
    /\ Len(values) = FirstAtOrAboveCutoff - 1

(***************************************************************************)
(* C3: validation rejects the run, and nothing is computed, whenever some  *)
(* room dimension is <= 0, some speaker coordinate is < 0, the relative    *)
(* humidity is not strictly between 0 and 1, or the harmonic count is < 1. *)
(***************************************************************************)
C3_RejectsEveryInvalidInput ==
    (\/ \E d \in AllDimensions : d <= 0
     \/ \E c \in AllCoordinates : c < 0
     \/ ~HumidityInRange
     \/ myargs.n < 1)
        => /\ pc \in {"validate", "exit_config"}
           /\ called = {}

(***************************************************************************)
(* C4: when validation finds a configuration error, as it does for a       *)
(* relative humidity of 1.2, the run ends before any computation: neither  *)
(* speed_of_sound nor run_simulation is invoked and no report, partial or  *)
(* complete, exists.                                                       *)
(***************************************************************************)
C4_NothingComputedOnConfigError ==
    (config_error \/ (myargs.rh = 12 /\ pc # "validate"))
        => /\ pc = "exit_config"
           /\ called = {}
           /\ cs = 0
           /\ proximity = EmptyByAxis
           /\ node_positions = EmptyByAxis
           /\ answer = <<>>

C4_Witness ==
    /\ pc = "exit_config"
    /\ myargs.rh = 12
    /\ \A d \in AllDimensions : d > 0
    /\ \A c \in AllCoordinates : c > 0
    /\ myargs.n >= 1

(***************************************************************************)
(* C5: a speaker position whose coordinates are all >= 0, zero included,   *)
(* passes validation when the other inputs are valid, and the run goes on  *)
(* to the computation.                                                     *)
(***************************************************************************)
C5_ZeroCoordinateAccepted ==
    (/\ \A c \in AllCoordinates : c >= 0
     /\ \A d \in AllDimensions : d > 0
     /\ HumidityInRange
     /\ myargs.n >= 1)
        => /\ pc # "exit_config"
           /\ ~config_error

(***************************************************************************)
(* C6: each axis is analysed against its own quantities: x against the     *)
(* length, the length's modes and xpos, y against the width, the width's   *)
(* modes and ypos, z against the height, the height's modes and zpos; the  *)
(* node positions of an axis lie within that axis's dimension.             *)
(***************************************************************************)
C6_EachAxisItsOwnQuantities ==
    \A a \in Axes : \A j \in 1..Len(node_positions[a]) :
        LET nodes == node_positions[a][j]
        IN  /\ j <= Len(ModesOf(a))
            /\ Len(nodes) \in NodeCounts(DimOf(a), ModesOf(a)[j])
            /\ nodes = NodePositions(ModesOf(a)[j], Len(nodes))
            /\ \A k \in 1..Len(nodes) : RatLe(nodes[k], <<DimOf(a), 1>>)
            /\ j <= Len(proximity[a]) =>
                  proximity[a][j] =
                      <<MinOf(Distances(CoordOf(a), nodes)), ModesOf(a)[j]>>

(***************************************************************************)
(* C7: a mode with no node strictly inside the room (half a wavelength     *)
(* equal to the dimension, as for the first mode of a dimension) gets an   *)
(* explicit "no node" entry at its index: no numeric distance, and the     *)
(* entry is not dropped.                                                   *)
(***************************************************************************)
C7_NoNodeIsReported ==
    SimulationEnded =>
        \A a \in Axes : \A j \in 1..Len(ModesOf(a)) :
            InteriorNodes(DimOf(a), ModesOf(a)[j]) = <<>> =>
                /\ j <= Len(proximity[a])
                /\ proximity[a][j] = <<NoNode, ModesOf(a)[j]>>

(***************************************************************************)
(* C8: a failure on one axis (the minimum of an empty distance list) does  *)
(* not stop the other axes: the report exists, holds the complete result   *)
(* of every other axis, and marks the failed axis.                         *)
(***************************************************************************)
C8_OtherAxesComplete ==
    pc = "value_error" =>
        /\ answer # <<>>
        /\ \A a \in Axes :
              IF Len(node_positions[a]) > Len(proximity[a])
              THEN answer[1][a] = NoNode
              ELSE Len(answer[1][a]) = Len(ModesOf(a))

(***************************************************************************)
(* C9: the candidate nodes of a mode on an axis of dimension d are exactly *)
(* k * (wavelength / 2) for the integers k >= 1 with                       *)
(* k * (wavelength / 2) < d; the far wall and beyond are never candidates. *)
(***************************************************************************)
C9_CandidatesStrictlyInside ==
    \A a \in Axes : \A j \in 1..Len(node_positions[a]) :
        node_positions[a][j] = InteriorNodes(DimOf(a), ModesOf(a)[j])

(***************************************************************************)
(* C10: for every axis and every mode of it with at least one candidate    *)
(* node, the output holds at the mode's index the pair (m, f): f the       *)
(* mode's frequency, m the least |speaker coordinate - node| over the      *)
(* mode's candidate nodes; the output has one entry per mode, in order.    *)
(***************************************************************************)
C10_LeastDistancePerMode ==
    SimulationEnded =>
        \A a \in Axes :
            /\ Len(proximity[a]) = Len(ModesOf(a))
            /\ \A j \in 1..Len(ModesOf(a)) :
                  LET nodes == InteriorNodes(DimOf(a), ModesOf(a)[j])
                  IN  nodes # <<>> =>
                          proximity[a][j] =
                              <<MinOf(Distances(CoordOf(a), nodes)),
                                ModesOf(a)[j]>>

====
